---- MODULE Spec2Model ----
(***************************************************************************)
(* Model of the Keysight B1500 mainframe driver (KeysightB1500_base.py):   *)
(* the write/error-poll protocol, the module registry, and the IV          *)
(* staircase sweep get (IVSweepMeasurement.get_raw) with its timeout       *)
(* computation and format/mode save-and-restore.                           *)
(*                                                                         *)
(* Strings exchanged with the instrument that the driver parses are        *)
(* sequences of one-character strings; floats are exact rationals <<n,d>>. *)
(***************************************************************************)
EXTENDS Integers, Sequences, FiniteSets, TLC

(***************************************************************************)
(* Bounds of the model                                                     *)
(***************************************************************************)
\* largest number of readings in one execute (XE) response
MaxReadings == 6
\* largest number of add_module calls after construction
MaxAddModule == 3
\* number of slots the population reply reports
MaxSlots == 3
\* largest number of channels in a measurement mode whose reply is parsed
MaxChannels == 3

(***************************************************************************)
(* Characters, decimal numbers, Python's int() and str.split               *)
(***************************************************************************)
Digits == <<"0", "1", "2", "3", "4", "5", "6", "7", "8", "9">>

IsDigit(c) == \E i \in 1..10 : Digits[i] = c

DigitVal(c) == (CHOOSE i \in 1..10 : Digits[i] = c) - 1

RECURSIVE Dec(_)
\* the decimal text of a natural number, as the instrument prints it
Dec(n) == IF n < 10 THEN <<Digits[n + 1]>>
          ELSE Dec(n \div 10) \o <<Digits[(n % 10) + 1]>>

\* int(s) succeeds: an optional sign followed by one or more digits
IsPyInt(s) ==
    LET body == IF Len(s) > 0 /\ s[1] \in {"+", "-"} THEN Tail(s) ELSE s
    IN  Len(body) > 0 /\ \A i \in 1..Len(body) : IsDigit(body[i])

RECURSIVE DigitsVal(_)
DigitsVal(s) == IF Len(s) = 0 THEN 0
                ELSE 10 * DigitsVal(SubSeq(s, 1, Len(s) - 1)) + DigitVal(s[Len(s)])

\* the value of int(s), for s with IsPyInt(s)
PyIntVal(s) ==
    IF s[1] = "-" THEN 0 - DigitsVal(Tail(s))
    ELSE IF s[1] = "+" THEN DigitsVal(Tail(s))
    ELSE DigitsVal(s)

\* the least index >= from at which sub occurs in s, 0 when there is none
FirstIndex(s, sub, from) ==
    LET hits == {i \in from..(Len(s) - Len(sub) + 1) :
                    SubSeq(s, i, i + Len(sub) - 1) = sub}
    IN  IF hits = {} THEN 0 ELSE CHOOSE i \in hits : \A j \in hits : i <= j

RECURSIVE PySplit(_)
\* s.split(','): the pieces between commas ('' splits into one empty piece)
PySplit(s) ==
    LET c == FirstIndex(s, <<",">>, 1)
    IN  IF c = 0 THEN <<s>>
        ELSE <<SubSeq(s, 1, c - 1)>> \o PySplit(SubSeq(s, c + 1, Len(s)))

RECURSIVE JoinNumbers(_)
\* the decimal texts of a sequence of naturals, each preceded by a comma
JoinNumbers(ns) ==
    IF Len(ns) = 0 THEN <<>>
    ELSE <<",">> \o Dec(Head(ns)) \o JoinNumbers(Tail(ns))

(***************************************************************************)
(* re.search('TAG(?P<a>.*?),(?P<b>.*?)(;|$)', response)                    *)
(***************************************************************************)
\* the match: the leftmost TAG that is followed by a comma; the first group
\* runs lazily to the first comma, the second to the first ';' or the end
ReSearchTagged(tag, response) ==
    LET p == FirstIndex(response, tag, 1)
        c == IF p = 0 THEN 0
             ELSE FirstIndex(response, <<",">>, p + Len(tag))
        s == IF c = 0 THEN 0 ELSE FirstIndex(response, <<";">>, c + 1)
        e == IF s = 0 THEN Len(response) + 1 ELSE s
    IN  IF c = 0 THEN [found |-> FALSE, first |-> <<>>, second |-> <<>>]
        ELSE [found  |-> TRUE,
              first  |-> SubSeq(response, p + Len(tag), c - 1),
              second |-> SubSeq(response, c + 1, e - 1)]

(***************************************************************************)
(* Exact rationals <<n, d>>, d > 0, in lowest terms (Python floats)        *)
(***************************************************************************)
Abs(x) == IF x < 0 THEN 0 - x ELSE x

RECURSIVE Gcd(_, _)
Gcd(a, b) == IF b = 0 THEN a ELSE Gcd(b, a % b)

Rat(n, d) ==
    LET g == Gcd(Abs(n), d)
    IN  IF n = 0 THEN <<0, 1>> ELSE <<n \div g, d \div g>>

RatMul(x, y) == Rat(x[1] * y[1], x[2] * y[2])

RatLess(x, y) == x[1] * y[2] < y[1] * x[2]

\* int(x) of a number: the fraction is dropped (truncation towards zero)
PyIntOfNumber(x) ==
    IF x[1] >= 0 THEN x[1] \div x[2] ELSE 0 - ((0 - x[1]) \div x[2])

\* max(x, y) as Python evaluates it: y only when y > x
RatMax(x, y) == IF RatLess(x, y) THEN y ELSE x

(***************************************************************************)
(* Exceptions.  type is the Python class, kind the error of the design's   *)
(* taxonomy that the raise site stands for, site the place that raised,    *)
(* msg the text the exception carries.                                     *)
(***************************************************************************)
NoMsg == <<>>

Exc(type, kind, site, msg) ==
    [type |-> type, kind |-> kind, site |-> site, msg |-> msg]

NoExc == Exc("none", "none", "none", NoMsg)

\* what a failed transport call raises: a timeout only on a query
VisaIOError(outcome, site) ==
    Exc("VisaIOError",
        IF outcome = "timeout" THEN "Timeout" ELSE "TransportError",
        site, NoMsg)

\* the outcomes of the transport's query and write
AskOutcomes == {"ok", "timeout", "transport_error"}

(***************************************************************************)
(* Commands and queries handed to the transport (MessageBuilder output)    *)
(***************************************************************************)
Cmd(mn, args) == [mn |-> mn, args |-> args]

fmt(format, mode) == Cmd("FMT", <<format, mode>>)

mm(mode, channels) == Cmd("MM", <<mode>> \o channels)

xe == Cmd("XE", <<>>)

errx_query == Cmd("ERRX?", <<>>)

\* constants.LRN.Type.TM_AV_CM_FMT_MM_SETTINGS
lrn_query == Cmd("*LRN?", <<31>>)

cal_query == Cmd("*CAL?", <<>>)

\* constants.AIT.Type and constants.AIT.Mode
AIT_HIGH_SPEED == 0

AIT_HIGH_RESOLUTION == 1

AIT_MANUAL == 1

AIT_NPLC == 2

\* MessageBuilder().ait(adc_type, mode, coeff): [exc, cmd]; coeff is <<>>
\* for None.  A coefficient outside the range of the mode (1 to 1023 for
\* manual averaging, 1 to 100 for NPLC) is refused before anything is sent.
ait(adc_type, mode, coeff) ==
    LET hi == IF mode = AIT_MANUAL THEN 1023 ELSE 100
    IN  IF coeff # <<>> /\ (coeff[1] < 1 \/ coeff[1] > hi)
        THEN [exc |-> Exc("ValueError", "InvalidParameter", "MessageBuilder.ait",
                          NoMsg),
              cmd |-> <<>>]
        ELSE [exc |-> NoExc,
              cmd |-> <<Cmd("AIT", <<adc_type, mode>> \o coeff)>>]

\* constants.UNT.Mode.MODULE_INFO_ONLY
unt_query == Cmd("UNT?", <<0>>)

\* sent by connect_message
idn_query == Cmd("*IDN?", <<>>)

\* an entry of the transport's record: what was sent and the text that came
\* back (<<>> for a write, a failed query, and the XE and *CAL? replies)
Sent(io, cmd, reply) == [io |-> io, cmd |-> cmd, reply |-> reply]

(***************************************************************************)
(* The instrument's replies                                                *)
(***************************************************************************)
\* the no-error text the write method compares with
NoErrorCode == <<"+0,\"No Error.\"">>

\* the no-error text the error_message docstring gives
NoErrorDoc == <<"0,\"No Error.\"">>

ErrorTexts == {<<"305,\"Excess current in HPSMU.;SLOT1\"">>}

PollTexts == {NoErrorCode, NoErrorDoc} \cup ErrorTexts

\* the settings reply to *LRN? 31 for a format/mode pair and a measurement
\* mode: FMT<format>,<mode>;MM<mode>[,<channels>]
FmtField(f) == <<"F", "M", "T">> \o Dec(f[1]) \o <<",">> \o Dec(f[2])

MMField(m) == <<"M", "M">> \o Dec(m.mode) \o JoinNumbers(m.channels)

\* the replies the instrument may give: the full one, the measurement mode
\* with an empty channel field, and replies lacking one of the two fields
LrnReplies(f, m) ==
    {FmtField(f) \o <<";">> \o MMField(m),
     FmtField(f),
     MMField(m)}
    \cup (IF Len(m.channels) = 0
          THEN {FmtField(f) \o <<";">> \o MMField(m) \o <<",">>}
          ELSE {})

\* the layouts in which a settings reply may state, or fail to state, the
\* two fields: either order, with and without a closing ';', one field
\* alone, a tag without its second value, a second value left empty
SettingsReplies(f, m) ==
    LET F  == FmtField(f)
        M  == MMField(m)
        F1 == <<"F", "M", "T">> \o Dec(f[1])
        M1 == <<"M", "M">> \o Dec(m.mode)
    IN  LrnReplies(f, m)
        \cup {M \o <<";">>,
              F \o <<";">> \o M \o <<";">>,
              M \o <<";">> \o F,
              M1,
              F1,
              F \o <<";">> \o M1,
              F1 \o <<";">> \o M,
              F \o <<";">> \o M1 \o <<",">>,
              F1 \o <<",">>}

(***************************************************************************)
(* constants.MM.Mode, constants.FMT.Format, constants.FMT.Mode             *)
(***************************************************************************)
MMModes == {1, 2, 3, 4, 5, 9, 10, 13, 14, 15, 16, 17, 18, 19, 20, 22, 23,
            26, 27, 28}

FMTFormats == {1, 2, 3, 4, 5, 11, 12, 13, 14, 15, 21, 22, 25}

FMTModes == 0..10

(***************************************************************************)
(* get_measurement_mode and get_response_format_and_mode: the parse of     *)
(* the settings reply                                                      *)
(***************************************************************************)
AllPyInt(pieces) == \A i \in 1..Len(pieces) : IsPyInt(pieces[i])

\* the parse with the channels taken from the last piece to the first
get_measurement_mode_reversed(response) ==
    LET match  == ReSearchTagged(<<"M", "M">>, response)
        pieces == PySplit(match.second)
        bad(site) == [exc |-> Exc("ValueError", "ProtocolMismatch", site, NoMsg),
                      mode |-> 0, channels |-> <<>>]
    IN  IF ~match.found THEN bad("get_measurement_mode.match")
        ELSE IF ~IsPyInt(match.first) THEN bad("get_measurement_mode.int")
        ELSE IF PyIntVal(match.first) \notin MMModes
             THEN bad("get_measurement_mode.enum")
        ELSE IF ~AllPyInt(pieces) THEN bad("get_measurement_mode.int")
        ELSE [exc      |-> NoExc,
              mode     |-> PyIntVal(match.first),
              channels |-> [i \in 1..Len(pieces) |->
                              PyIntVal(pieces[Len(pieces) + 1 - i])]]

\* [exc, mode, channels]: exc is NoExc when the dictionary is returned
get_measurement_mode(response) ==
    LET match  == ReSearchTagged(<<"M", "M">>, response)
        pieces == PySplit(match.second)
        bad(site) == [exc |-> Exc("ValueError", "ProtocolMismatch", site, NoMsg),
                      mode |-> 0, channels |-> <<>>]
    IN  IF ~match.found THEN bad("get_measurement_mode.match")
        ELSE IF ~IsPyInt(match.first) THEN bad("get_measurement_mode.int")
        ELSE IF PyIntVal(match.first) \notin MMModes
             THEN bad("get_measurement_mode.enum")
        ELSE IF ~AllPyInt(pieces) THEN bad("get_measurement_mode.int")
        ELSE [exc      |-> NoExc,
              mode     |-> PyIntVal(match.first),
              channels |-> [i \in 1..Len(pieces) |-> PyIntVal(pieces[i])]]

\* the parse with format 1, mode 0 assumed when the field is not found
get_response_format_and_mode_defaulting(response) ==
    LET match == ReSearchTagged(<<"F", "M", "T">>, response)
        bad(site) == [exc |-> Exc("ValueError", "ProtocolMismatch", site, NoMsg),
                      format |-> 0, mode |-> 0]
    IN  IF ~match.found THEN [exc |-> NoExc, format |-> 1, mode |-> 0]
        ELSE IF ~IsPyInt(match.first) \/ ~IsPyInt(match.second)
             THEN bad("get_response_format_and_mode.int")
        ELSE IF PyIntVal(match.first) \notin FMTFormats
                \/ PyIntVal(match.second) \notin FMTModes
             THEN bad("get_response_format_and_mode.enum")
        ELSE [exc    |-> NoExc,
              format |-> PyIntVal(match.first),
              mode   |-> PyIntVal(match.second)]

\* [exc, format, mode]
get_response_format_and_mode(response) ==
    LET match == ReSearchTagged(<<"F", "M", "T">>, response)
        bad(site) == [exc |-> Exc("ValueError", "ProtocolMismatch", site, NoMsg),
                      format |-> 0, mode |-> 0]
    IN  IF ~match.found THEN bad("get_response_format_and_mode.match")
        ELSE IF ~IsPyInt(match.first) \/ ~IsPyInt(match.second)
             THEN bad("get_response_format_and_mode.int")
        ELSE IF PyIntVal(match.first) \notin FMTFormats
                \/ PyIntVal(match.second) \notin FMTModes
             THEN bad("get_response_format_and_mode.enum")
        ELSE [exc    |-> NoExc,
              format |-> PyIntVal(match.first),
              mode   |-> PyIntVal(match.second)]

(***************************************************************************)
(* write (and the error_message poll that follows it)                      *)
(***************************************************************************)
\* What can happen to one write: w is the outcome of the transport's write,
\* applied whether the instrument executed the command, poll the outcome of
\* the ERRX? query and text its reply.  An instrument that did not execute
\* the command reports an error; one that did may still report an older one.
WriteOutcomes ==
    {[w |-> "transport_error", applied |-> b, poll |-> "ok", text |-> NoErrorCode] :
        b \in BOOLEAN}
    \cup {[w |-> "ok", applied |-> b, poll |-> a, text |-> NoErrorCode] :
            b \in BOOLEAN, a \in AskOutcomes \ {"ok"}}
    \cup {[w |-> "ok", applied |-> TRUE, poll |-> "ok", text |-> t] : t \in PollTexts}
    \cup {[w |-> "ok", applied |-> FALSE, poll |-> "ok", text |-> t] : t \in ErrorTexts}

\* error_message: the reply to ERRX?, returned as it is
error_message(o) == o.text

\* the text write compares the poll with
WriteSentinel == NoErrorCode

\* the exception write raises, NoExc when it completes
write(o) ==
    IF o.w # "ok" THEN VisaIOError(o.w, "write.super")
    ELSE IF o.poll # "ok" THEN VisaIOError(o.poll, "write.error_message")
    ELSE IF error_message(o) # WriteSentinel
         THEN Exc("RuntimeError", "InstrumentError", "write.check",
                  <<"While setting this parameter received error: ">>
                      \o error_message(o))
    ELSE NoExc

\* a write that hands over the command and asks for no error message
WriteSentUnpolled(cmd, o) == <<Sent("write", cmd, <<>>)>>

\* the messages write hands to the transport: the command, then the poll
WriteSent(cmd, o) ==
    <<Sent("write", cmd, <<>>)>>
        \o (IF o.w = "ok"
            THEN <<Sent("query", errx_query,
                        IF o.poll = "ok" THEN error_message(o) ELSE <<>>)>>
            ELSE <<>>)

\* the instrument's format/mode pair and measurement mode after a write
InstFmtAfter(cmd, o, f) ==
    IF o.applied /\ cmd.mn = "FMT" THEN cmd.args ELSE f

InstMMAfter(cmd, o, m) ==
    IF o.applied /\ cmd.mn = "MM"
    THEN [mode |-> cmd.args[1], channels |-> Tail(cmd.args)]
    ELSE m

(***************************************************************************)
(* The module registry                                                     *)
(***************************************************************************)
ModuleKinds == {"SMU", "CMU", "WGFMU"}

Module(id, kind, slot_nr, channels) ==
    [id |-> id, kind |-> kind, slot_nr |-> slot_nr, channels |-> channels]

\* by_slot = {}, by_channel = {}, by_kind = defaultdict(list)
EmptyRegistry ==
    [by_slot    |-> <<>>,
     by_channel |-> <<>>,
     by_kind    |-> [k \in ModuleKinds |-> <<>>]]

SeqRange(q) == {q[i] : i \in 1..Len(q)}

\* add_module without the loop over module.channels
RegisteredWithoutChannels(reg, module) ==
    [by_kind    |-> [reg.by_kind EXCEPT ![module.kind] = Append(@, module)],
     by_slot    |-> [s \in (DOMAIN reg.by_slot) \cup {module.slot_nr} |->
                        IF s = module.slot_nr THEN module ELSE reg.by_slot[s]],
     by_channel |-> reg.by_channel]

\* the three indices after the body of add_module has run for module
Registered(reg, module) ==
    [by_kind    |-> [reg.by_kind EXCEPT ![module.kind] = Append(@, module)],
     by_slot    |-> [s \in (DOMAIN reg.by_slot) \cup {module.slot_nr} |->
                        IF s = module.slot_nr THEN module ELSE reg.by_slot[s]],
     by_channel |-> [c \in (DOMAIN reg.by_channel) \cup SeqRange(module.channels) |->
                        IF c \in SeqRange(module.channels) THEN module
                        ELSE reg.by_channel[c]]]

\* the registry once construction has found an SMU in slots 1 and 2
\* (a B1517A in slot n owns channel n)
DiscoveredRegistry ==
    Registered(Registered(EmptyRegistry, Module(1, "SMU", 1, <<1>>)),
               Module(2, "SMU", 2, <<2>>))

\* the model codes from_model_name knows, with the kind of the module class
RecognizedModels == {"B1517A", "B1520A", "B1530A"}

KindOfModel(model) ==
    IF model = "B1517A" THEN "SMU"
    ELSE IF model = "B1520A" THEN "CMU"
    ELSE "WGFMU"

\* what a slot may report: a recognized model, a model the driver has no
\* class for, or "0" for an empty slot
ModelCodes == RecognizedModels \cup {"B1525A", "0"}

RECURSIVE PopulationFrom(_, _)
\* the (slot_nr, model) pairs of the slots from slot_nr on that hold a module
PopulationFrom(r, slot_nr) ==
    IF slot_nr > Len(r) THEN <<>>
    ELSE (IF r[slot_nr] = "0" THEN <<>>
          ELSE <<[slot_nr |-> slot_nr, model |-> r[slot_nr]]>>)
         \o PopulationFrom(r, slot_nr + 1)

\* parse_module_query_response: slot number -> model, empty slots left out
parse_module_query_response(r) == PopulationFrom(r, 1)

\* from_model_name with every model code given a module class
from_model_name_any(model, slot_nr) ==
    [exc    |-> NoExc,
     module |-> <<Module(slot_nr,
                         IF model \in RecognizedModels THEN KindOfModel(model)
                         ELSE "SMU",
                         slot_nr, <<slot_nr>>)>>]

\* [exc, module]: the module instance for a model code (a module in slot n
\* owns channel n), or NotImplementedError
from_model_name(model, slot_nr) ==
    IF model \in RecognizedModels
    THEN [exc    |-> NoExc,
          module |-> <<Module(slot_nr, KindOfModel(model), slot_nr, <<slot_nr>>)>>]
    ELSE [exc    |-> Exc("NotImplementedError", "UnsupportedModule",
                         "from_model_name", NoMsg),
          module |-> <<>>]

(***************************************************************************)
(* The sweep timeout                                                       *)
(***************************************************************************)
\* IVSweepMeasurement._fudge = 1.5
fudge == <<3, 2>>

calibration_time_out == 60

\* the timing with the sign of the coefficient kept in the NPLC branch
SweepTimeoutSigned(a) ==
    LET delay_time == a.step_delay
        calculated_time ==
            IF a.average_coefficient < 0
            THEN LET nplc == 128 * a.average_coefficient
                     power_line_time_period == Rat(1, a.power_line_frequency)
                 IN  RatMul(Rat(2 * nplc, 1), power_line_time_period)
            ELSE RatMul(Rat(a.average_coefficient, 1), delay_time)
        estimated_timeout ==
            RatMul(RatMax(delay_time, calculated_time), Rat(a.sweep_steps, 1))
    IN  RatMul(estimated_timeout, fudge)

\* new_timeout of get_raw for the attributes of the sweep-source module
SweepTimeout(a) ==
    LET delay_time == a.step_delay
        calculated_time ==
            IF a.average_coefficient < 0
            THEN LET nplc == 128 * Abs(a.average_coefficient)
                     power_line_time_period == Rat(1, a.power_line_frequency)
                 IN  RatMul(Rat(2 * nplc, 1), power_line_time_period)
            ELSE RatMul(Rat(a.average_coefficient, 1), delay_time)
        estimated_timeout ==
            RatMul(RatMax(delay_time, calculated_time), Rat(a.sweep_steps, 1))
    IN  RatMul(estimated_timeout, fudge)

(***************************************************************************)
(* The execute reply and its decomposition                                 *)
(***************************************************************************)
\* reading i of a reply: the sweep returns, per step, the primary signal,
\* the secondary signal and the source voltage
Reading(i) ==
    [value   |-> 100 + i,
     status  |-> "N",
     channel |-> IF i % 3 = 1 THEN "A" ELSE "B",
     type    |-> IF i % 3 = 0 THEN "V" ELSE "I"]

\* the replies to XE: n readings, or text that does not decode
RawResponses ==
    {[wellformed |-> TRUE, readings |-> [i \in 1..n |-> Reading(i)]] :
        n \in 0..MaxReadings}
    \cup {[wellformed |-> FALSE, readings |-> <<>>]}

\* fmt_response_base_parser: four parallel sequences, one entry per reading
fmt_response_base_parser(raw) ==
    [value   |-> [i \in 1..Len(raw.readings) |-> raw.readings[i].value],
     status  |-> [i \in 1..Len(raw.readings) |-> raw.readings[i].status],
     channel |-> [i \in 1..Len(raw.readings) |-> raw.readings[i].channel],
     type    |-> [i \in 1..Len(raw.readings) |-> raw.readings[i].type]]

\* q[offset::3], offset counted from 0 as in Python
Slice3(q, offset) ==
    LET n == IF Len(q) > offset THEN (Len(q) - offset + 2) \div 3 ELSE 0
    IN  [k \in 1..n |-> q[offset + 3 * (k - 1) + 1]]

\* _FMTResponse(*[parsed_data[i][offset::3] for i in range(0, 4)]); the
\* fields hold <<sequence>>, or <<>> for None
FMTResponseSlice(parsed_data, offset) ==
    [value   |-> <<Slice3(parsed_data.value, offset)>>,
     status  |-> <<Slice3(parsed_data.status, offset)>>,
     channel |-> <<Slice3(parsed_data.channel, offset)>>,
     type    |-> <<Slice3(parsed_data.type, offset)>>]

\* _FMTResponse(None, None, None, None)
FMTResponseNone ==
    [value |-> <<>>, status |-> <<>>, channel |-> <<>>, type |-> <<>>]

(***************************************************************************)
(* State                                                                   *)
(***************************************************************************)
VARIABLES
    pc,              \* where the caller's current operation stands
    by_slot,         \* KeysightB1500.by_slot
    by_channel,      \* KeysightB1500.by_channel
    by_kind,         \* KeysightB1500.by_kind
    nadd,            \* add_module calls made so far
    installed,       \* the instrument: model code per slot ("0": empty)
    slot_population, \* _find_modules: the pairs the loop has yet to visit
    instance,        \* what the constructor call has handed to its caller
    smu,             \* module id -> the attributes get_raw reads of it
    instFmt,         \* the instrument's response format/mode pair
    instMM,          \* the instrument's measurement mode and channels
    timeout,         \* the channel's timeout (root_instrument.timeout)
    log,             \* messages handed to the transport by the operation
    new_timeout,     \* get_raw: new_timeout
    fmt_saved,       \* get_raw: <<fmt_format, fmt_mode>>, <<>> before the read
    parsed_data,     \* get_raw: <<parsed_data>>, <<>> while unassigned
    pending,         \* the exception propagating out of the try block
    original_value,  \* timeout.set_to: the value to put back on exit
    param1,          \* IVSweepMeasurement.param1
    param2,          \* IVSweepMeasurement.param2
    source_voltage,  \* IVSweepMeasurement.source_voltage
    shapes,          \* IVSweepMeasurement.shapes
    setpoints,       \* IVSweepMeasurement.setpoints
    ret,             \* how the last operation handed control back
    pre              \* timeout and format/mode pair when the operation began

vars == <<pc, by_slot, by_channel, by_kind, nadd, installed,
          slot_population, instance, smu, instFmt, instMM,
          timeout, log, new_timeout, fmt_saved, parsed_data, pending,
          original_value, param1, param2, source_voltage, shapes,
          setpoints, ret, pre>>

registry == <<by_slot, by_channel, by_kind, nadd>>

discovery == <<installed, slot_population, instance>>

stored == <<param1, param2, source_voltage, shapes, setpoints>>

locals == <<new_timeout, fmt_saved, parsed_data, pending, original_value>>

instrument == <<instFmt, instMM>>

\* ret: the operation, "returned" or "raised", the exception raised, its
\* __context__ (the exception that was propagating when it was raised) and
\* the value returned
Ret(op, status, exc, context, value) ==
    [op |-> op, status |-> status, exc |-> exc, context |-> context,
     value |-> value]

Returned(op, value) == Ret(op, "returned", NoExc, NoExc, value)

Raised(op, exc, context) == Ret(op, "raised", exc, context, <<>>)

NoTimeout == <<0, 1>>

DefaultTimeout == <<10, 1>>

(***************************************************************************)
(* Initial states: the instrument as construction left it                  *)
(***************************************************************************)
\* averaging coefficient, line frequency, step delay and step count of the
\* SMU in slot 1, as the caller configured them
SweepSettings ==
    {<<-2, 50, Rat(1, 100), 100>>,
     <<4, 50, Rat(2, 100), 50>>,
     <<0, 60, Rat(1, 100), 50>>,
     <<-2, 60, Rat(2, 100), 50>>}

SmuAttributes ==
    {[setup_fnc_already_run |-> b,
      average_coefficient   |-> c[1],
      power_line_frequency  |-> c[2],
      step_delay            |-> c[3],
      sweep_steps           |-> c[4]] :
        b \in BOOLEAN, c \in SweepSettings}

\* the SMU in slot 2
SmuAttributes2 ==
    {[setup_fnc_already_run |-> TRUE,
      average_coefficient   |-> 1,
      power_line_frequency  |-> 50,
      step_delay            |-> Rat(3, 100),
      sweep_steps           |-> 10]}

\* channel lists a measurement mode may hold (channel 3 is owned by no module)
ModeChannelLists ==
    {<<>>, <<1>>, <<1, 2>>, <<2, 1>>, <<3, 1>>, <<1, 2, 3>>}

InstModes == {[mode |-> 16, channels |-> cs] : cs \in ModeChannelLists}

InstFormats == {<<1, 1>>, <<5, 0>>}

InitLocals ==
    /\ new_timeout = NoTimeout
    /\ fmt_saved = <<>>
    /\ parsed_data = <<>>
    /\ pending = NoExc
    /\ original_value = NoTimeout

InitStored ==
    /\ param1 = FMTResponseNone
    /\ param2 = FMTResponseNone
    /\ source_voltage = FMTResponseNone
    /\ shapes = <<<<1>>, <<1>>>>
    /\ setpoints = <<>>

Init ==
    /\ pc = "idle"
    /\ by_slot = DiscoveredRegistry.by_slot
    /\ by_channel = DiscoveredRegistry.by_channel
    /\ by_kind = DiscoveredRegistry.by_kind
    /\ nadd = 0
    /\ installed = [i \in 1..MaxSlots |-> IF i <= 2 THEN "B1517A" ELSE "0"]
    /\ slot_population = <<>>
    /\ instance = "instrument"
    /\ \E a1 \in SmuAttributes, a2 \in SmuAttributes2 :
          smu = [i \in {1, 2} |-> IF i = 1 THEN a1 ELSE a2]
    /\ instFmt \in InstFormats
    /\ instMM \in InstModes
    /\ timeout = DefaultTimeout
    /\ log = <<>>
    /\ InitLocals
    /\ InitStored
    /\ ret = Ret("none", "none", NoExc, NoExc, <<>>)
    /\ pre = [timeout |-> DefaultTimeout, instFmt |-> instFmt]

(***************************************************************************)
(* How an operation hands control back                                     *)
(***************************************************************************)
ResetLocals ==
    /\ new_timeout' = NoTimeout
    /\ fmt_saved' = <<>>
    /\ parsed_data' = <<>>
    /\ pending' = NoExc
    /\ original_value' = NoTimeout

Finish(r) ==
    /\ pc' = "idle"
    /\ ret' = r
    /\ ResetLocals

Begin == pre' = [timeout |-> timeout, instFmt |-> instFmt]

(***************************************************************************)
(* timeout.set_to(value): a context manager that sets the timeout and, on  *)
(* leaving the with block by return or by exception, puts the old one back *)
(***************************************************************************)
set_to_exit(saved) == saved

\* the timeout once the with block is left with exception exc (NoExc: none)
WithExitSkippedOnError(exc, current, saved) ==
    IF exc = NoExc THEN set_to_exit(saved) ELSE current

WithExit(exc, current, saved) == set_to_exit(saved)

(***************************************************************************)
(* try ... finally of get_raw                                              *)
(***************************************************************************)
\* the command of the finally clause
RestoreCommandSwapped(saved) == fmt(saved[2], saved[1])

RestoreCommand(saved) == fmt(saved[1], saved[2])

\* How the try statement ends: wexc is what the finally clause raised, exc
\* what was propagating out of the try block.  An exception of the finally
\* clause replaces the propagating one and keeps it as its __context__; a
\* finally clause that completes lets the propagating one continue.
TryOutcomeWrapping(wexc, exc) ==
    IF wexc # NoExc THEN Raised("get_raw", wexc, exc)
    ELSE IF exc # NoExc
         THEN Raised("get_raw",
                     Exc("RuntimeError", "SweepFailed", "get_raw.finally", NoMsg),
                     exc)
    ELSE Returned("get_raw", <<>>)

TryOutcomeNoContext(wexc, exc) ==
    IF wexc # NoExc THEN Raised("get_raw", wexc, NoExc)
    ELSE IF exc # NoExc THEN Raised("get_raw", exc, NoExc)
    ELSE Returned("get_raw", <<>>)

TryOutcome(wexc, exc) ==
    IF wexc # NoExc THEN Raised("get_raw", wexc, exc)
    ELSE IF exc # NoExc THEN Raised("get_raw", exc, NoExc)
    ELSE Returned("get_raw", <<>>)

(***************************************************************************)
(* IVSweepMeasurement.get_raw                                              *)
(***************************************************************************)
\* the checks without the one of setup_fnc_already_run
ValidateSetupUnchecked(measurement_mode) ==
    LET channels == measurement_mode.channels
    IN  IF measurement_mode.exc # NoExc THEN measurement_mode.exc
        ELSE IF Len(channels) # 2
             THEN Exc("ValueError", "InvalidSweepConfiguration",
                      "get_raw.channels", NoMsg)
        ELSE IF channels[1] \notin DOMAIN by_channel
             THEN Exc("KeyError", "UnknownChannel", "get_raw.by_channel", NoMsg)
        ELSE NoExc

\* the checks with a lookup that reports a missing channel as a sweep that
\* was not set up
ValidateMissingAsNotConfigured(measurement_mode) ==
    LET channels == measurement_mode.channels
    IN  IF measurement_mode.exc # NoExc THEN measurement_mode.exc
        ELSE IF Len(channels) # 2
             THEN Exc("ValueError", "InvalidSweepConfiguration",
                      "get_raw.channels", NoMsg)
        ELSE IF channels[1] \notin DOMAIN by_channel
             THEN Exc("Exception", "SweepNotConfigured", "get_raw.setup", NoMsg)
        ELSE IF ~smu[by_channel[channels[1]].id].setup_fnc_already_run
             THEN Exc("Exception", "SweepNotConfigured", "get_raw.setup", NoMsg)
        ELSE NoExc

\* the exception of the checks that precede the timing, NoExc when they pass
Validate(measurement_mode) ==
    LET channels == measurement_mode.channels
    IN  IF measurement_mode.exc # NoExc THEN measurement_mode.exc
        ELSE IF Len(channels) # 2
             THEN Exc("ValueError", "InvalidSweepConfiguration",
                      "get_raw.channels", NoMsg)
        ELSE IF channels[1] \notin DOMAIN by_channel
             THEN Exc("KeyError", "UnknownChannel", "get_raw.by_channel", NoMsg)
        ELSE IF ~smu[by_channel[channels[1]].id].setup_fnc_already_run
             THEN Exc("Exception", "SweepNotConfigured", "get_raw.setup", NoMsg)
        ELSE NoExc

\* query the measurement mode, check it, compute the timeout
get_raw_validate ==
    /\ pc = "idle"
    /\ Begin
    /\ \E a \in AskOutcomes, response \in LrnReplies(instFmt, instMM) :
         LET measurement_mode == get_measurement_mode(response)
             exc == IF a # "ok" THEN VisaIOError(a, "get_measurement_mode.ask")
                    ELSE Validate(measurement_mode)
         IN  /\ log' = <<Sent("query", lrn_query,
                              IF a = "ok" THEN response ELSE <<>>)>>
             /\ IF exc # NoExc
                THEN Finish(Raised("get_raw", exc, NoExc))
                ELSE /\ pc' = "read_fmt"
                     /\ new_timeout' =
                          SweepTimeout(smu[by_channel[measurement_mode.channels[1]].id])
                     /\ ret' = Ret("get_raw", "none", NoExc, NoExc, <<>>)
                     /\ UNCHANGED <<fmt_saved, parsed_data, pending, original_value>>
    /\ UNCHANGED <<registry, discovery, smu, instrument, timeout, stored>>

\* query and keep the format/mode pair
get_raw_read_format ==
    /\ pc = "read_fmt"
    /\ \E a \in AskOutcomes, response \in LrnReplies(instFmt, instMM) :
         LET format_and_mode == get_response_format_and_mode(response)
             exc == IF a # "ok"
                    THEN VisaIOError(a, "get_response_format_and_mode.ask")
                    ELSE format_and_mode.exc
         IN  /\ log' = Append(log, Sent("query", lrn_query,
                                         IF a = "ok" THEN response ELSE <<>>))
             /\ IF exc # NoExc
                THEN Finish(Raised("get_raw", exc, NoExc))
                ELSE /\ pc' = "force"
                     /\ fmt_saved' = <<format_and_mode.format, format_and_mode.mode>>
                     /\ UNCHANGED <<new_timeout, parsed_data, pending,
                                    original_value, ret>>
    /\ UNCHANGED <<registry, discovery, smu, instrument, timeout, stored, pre>>

\* the forcing write with its exception dropped: the with block is entered
\* and XE sent whatever became of the write
get_raw_force_unchecked ==
    /\ pc = "force"
    /\ \E o \in WriteOutcomes :
         LET cmd == fmt(1, 1)
         IN  /\ instFmt' = InstFmtAfter(cmd, o, instFmt)
             /\ pc' = "executing"
             /\ original_value' = timeout
             /\ timeout' = new_timeout
             /\ log' = log \o WriteSent(cmd, o) \o <<Sent("query", xe, <<>>)>>
             /\ UNCHANGED pending
    /\ UNCHANGED <<registry, discovery, smu, instMM, stored, new_timeout,
                   fmt_saved, parsed_data, ret, pre>>

\* write FMT 1,1; when that completes, enter the with block and send XE
get_raw_force ==
    /\ pc = "force"
    /\ \E o \in WriteOutcomes :
         LET cmd == fmt(1, 1)
             exc == write(o)
         IN  /\ instFmt' = InstFmtAfter(cmd, o, instFmt)
             /\ IF exc # NoExc
                THEN /\ pc' = "restore"
                     /\ pending' = exc
                     /\ log' = log \o WriteSent(cmd, o)
                     /\ UNCHANGED <<timeout, original_value>>
                ELSE /\ pc' = "executing"
                     /\ original_value' = timeout
                     /\ timeout' = new_timeout
                     /\ log' = log \o WriteSent(cmd, o) \o <<Sent("query", xe, <<>>)>>
                     /\ UNCHANGED pending
    /\ UNCHANGED <<registry, discovery, smu, instMM, stored, new_timeout, fmt_saved,
                   parsed_data, ret, pre>>

\* the XE query ends: reply, timeout or transport failure; decode the reply;
\* leave the with block
get_raw_execute ==
    /\ pc = "executing"
    /\ \E a \in AskOutcomes, raw_data \in RawResponses :
         LET exc == IF a # "ok" THEN VisaIOError(a, "get_raw.xe")
                    ELSE IF ~raw_data.wellformed
                         THEN Exc("ValueError", "MalformedResponse",
                                  "fmt_response_base_parser", NoMsg)
                    ELSE NoExc
         IN  /\ parsed_data' = IF exc = NoExc
                               THEN <<fmt_response_base_parser(raw_data)>>
                               ELSE <<>>
             /\ pending' = exc
             /\ timeout' = WithExit(exc, timeout, original_value)
    /\ pc' = "restore"
    /\ UNCHANGED <<registry, discovery, smu, instrument, stored, log, new_timeout,
                   fmt_saved, original_value, ret, pre>>

\* the series stored as soon as the reply is decoded, whatever becomes of
\* the restoring write
RestoreWithStoredFirst(o) ==
    LET cmd == RestoreCommand(fmt_saved)
        outcome == TryOutcome(write(o), pending)
    IN  /\ instFmt' = InstFmtAfter(cmd, o, instFmt)
        /\ log' = log \o WriteSent(cmd, o)
        /\ IF parsed_data = <<>>
           THEN /\ Finish(outcome)
                /\ UNCHANGED stored
           ELSE LET data == parsed_data[1]
                    p1 == FMTResponseSlice(data, 0)
                    p2 == FMTResponseSlice(data, 1)
                    sv == FMTResponseSlice(data, 2)
                IN  /\ param1' = p1
                    /\ param2' = p2
                    /\ source_voltage' = sv
                    /\ shapes' = <<<<Len(sv.value[1])>>, <<Len(sv.value[1])>>>>
                    /\ setpoints' = <<<<sv.value[1]>>, <<sv.value[1]>>>>
                    /\ Finish(IF outcome.status = "raised" THEN outcome
                              ELSE Returned("get_raw", <<p1.value[1], p2.value[1]>>))
        /\ UNCHANGED <<registry, discovery, smu, instMM, timeout, pre>>

\* the finally clause for one outcome o of its write: write the saved pair
\* back; then, unless an exception is raised, store the three series and
\* return
RestoreWith(o) ==
    LET cmd == RestoreCommand(fmt_saved)
        outcome == TryOutcome(write(o), pending)
    IN  /\ instFmt' = InstFmtAfter(cmd, o, instFmt)
        /\ log' = log \o WriteSent(cmd, o)
        /\ IF outcome.status = "raised"
           THEN /\ Finish(outcome)
                /\ UNCHANGED stored
           ELSE LET data == parsed_data[1]
                    p1 == FMTResponseSlice(data, 0)
                    p2 == FMTResponseSlice(data, 1)
                    sv == FMTResponseSlice(data, 2)
                IN  /\ param1' = p1
                    /\ param2' = p2
                    /\ source_voltage' = sv
                    /\ shapes' = <<<<Len(sv.value[1])>>, <<Len(sv.value[1])>>>>
                    /\ setpoints' = <<<<sv.value[1]>>, <<sv.value[1]>>>>
                    /\ Finish(Returned("get_raw", <<p1.value[1], p2.value[1]>>))
        /\ UNCHANGED <<registry, discovery, smu, instMM, timeout, pre>>

\* the restoring write placed after the try block instead of in a finally
\* clause: it is skipped when an exception is propagating
get_raw_restore_after_try ==
    /\ pc = "restore"
    /\ IF pending = NoExc
       THEN \E o \in WriteOutcomes : RestoreWith(o)
       ELSE /\ Finish(Raised("get_raw", pending, NoExc))
            /\ UNCHANGED <<registry, discovery, smu, instrument, timeout, pre, log, stored>>

get_raw_restore ==
    /\ pc = "restore"
    /\ \E o \in WriteOutcomes : RestoreWith(o)

(***************************************************************************)
(* set_measurement_mode and self_calibration                               *)
(***************************************************************************)
\* write MM <mode>[,<channels>]
set_measurement_mode ==
    /\ pc = "idle"
    /\ Begin
    /\ \E m \in InstModes, o \in WriteOutcomes :
         LET cmd == mm(m.mode, m.channels)
             exc == write(o)
         IN  /\ instMM' = InstMMAfter(cmd, o, instMM)
             /\ log' = WriteSent(cmd, o)
             /\ Finish(IF exc # NoExc
                       THEN Raised("set_measurement_mode", exc, NoExc)
                       ELSE Returned("set_measurement_mode", <<>>))
    /\ UNCHANGED <<registry, discovery, smu, instFmt, timeout, stored>>

\* enter the with block and send *CAL?
self_calibration ==
    /\ pc = "idle"
    /\ Begin
    /\ pc' = "calibrating"
    /\ original_value' = timeout
    /\ timeout' = Rat(calibration_time_out, 1)
    /\ log' = <<Sent("query", cal_query, <<>>)>>
    /\ ret' = Ret("self_calibration", "none", NoExc, NoExc, <<>>)
    /\ UNCHANGED <<registry, discovery, smu, instrument, stored, new_timeout, fmt_saved,
                   parsed_data, pending>>

\* the replies to *CAL?: a result code, or nothing readable
CalReplies == {<<"0">>, <<"2">>, <<>>}

\* the *CAL? query ends; leave the with block; convert the reply
self_calibration_return ==
    /\ pc = "calibrating"
    /\ \E a \in AskOutcomes, response \in CalReplies :
         LET exc == IF a # "ok" THEN VisaIOError(a, "self_calibration.ask")
                    ELSE NoExc
             conv == IF IsPyInt(response) THEN NoExc
                     ELSE Exc("ValueError", "MalformedResponse",
                              "self_calibration.int", NoMsg)
         IN  /\ timeout' = WithExit(exc, timeout, original_value)
             /\ Finish(IF exc # NoExc
                       THEN Raised("self_calibration", exc, NoExc)
                       ELSE IF conv # NoExc
                            THEN Raised("self_calibration", conv, NoExc)
                       ELSE Returned("self_calibration", <<PyIntVal(response)>>))
    /\ UNCHANGED <<registry, discovery, smu, instrument, stored, log, pre>>

(***************************************************************************)
(* add_module                                                              *)
(***************************************************************************)
\* the modules a caller may hand to add_module
CandidateModules(id) ==
    {Module(id, kind, slot_nr, channels) :
        kind \in {"SMU", "CMU"}, slot_nr \in {1, 2},
        channels \in {<<1>>, <<2>>, <<1, 2>>, <<2, 3>>}}

\* add_submodule may refuse the name; otherwise the three indices are updated
add_module ==
    /\ pc = "idle"
    /\ nadd < MaxAddModule
    /\ \E module \in CandidateModules(nadd + 1), sub_ok \in BOOLEAN :
         LET reg == [by_slot |-> by_slot, by_channel |-> by_channel,
                     by_kind |-> by_kind]
             new == IF sub_ok THEN Registered(reg, module) ELSE reg
         IN  /\ by_slot' = new.by_slot
             /\ by_channel' = new.by_channel
             /\ by_kind' = new.by_kind
             /\ ret' = IF sub_ok
                       THEN Ret("add_module", "returned", NoExc, NoExc,
                                <<module>>)
                       ELSE Ret("add_module", "raised",
                                Exc("KeyError", "DuplicateSubmodule",
                                    "add_submodule", NoMsg),
                                NoExc, <<module>>)
    /\ nadd' = nadd + 1
    /\ UNCHANGED <<pc, discovery, smu, instrument, timeout, log, locals,
                   stored, pre>>

(***************************************************************************)
(* get_measurement_mode and get_response_format_and_mode called by the     *)
(* user: the query, then the parse of its reply                            *)
(***************************************************************************)
query_measurement_mode ==
    /\ pc = "idle"
    /\ Begin
    /\ \E a \in AskOutcomes, response \in SettingsReplies(instFmt, instMM) :
         LET out == get_measurement_mode(response)
             exc == IF a # "ok" THEN VisaIOError(a, "get_measurement_mode.ask")
                    ELSE out.exc
         IN  /\ log' = <<Sent("query", lrn_query,
                              IF a = "ok" THEN response ELSE <<>>)>>
             /\ Finish(IF exc # NoExc
                       THEN Raised("get_measurement_mode", exc, NoExc)
                       ELSE Returned("get_measurement_mode",
                                     <<[mode     |-> out.mode,
                                        channels |-> out.channels]>>))
    /\ UNCHANGED <<registry, discovery, smu, instrument, timeout, stored>>

query_response_format_and_mode ==
    /\ pc = "idle"
    /\ Begin
    /\ \E a \in AskOutcomes, response \in SettingsReplies(instFmt, instMM) :
         LET out == get_response_format_and_mode(response)
             exc == IF a # "ok"
                    THEN VisaIOError(a, "get_response_format_and_mode.ask")
                    ELSE out.exc
         IN  /\ log' = <<Sent("query", lrn_query,
                              IF a = "ok" THEN response ELSE <<>>)>>
             /\ Finish(IF exc # NoExc
                       THEN Raised("get_response_format_and_mode", exc, NoExc)
                       ELSE Returned("get_response_format_and_mode",
                                     <<[format |-> out.format,
                                        mode   |-> out.mode]>>))
    /\ UNCHANGED <<registry, discovery, smu, instrument, timeout, stored>>

(***************************************************************************)
(* The integration-time setters and _setup_integration_time                *)
(***************************************************************************)
\* the values a caller passes for n: None, whole numbers, and numbers with
\* a fraction
CoeffInputs ==
    {<<>>}
    \cup {<<Rat(k, 1)>> : k \in {0, 1, 2, 100, 101, 1023, 1024}}
    \cup {<<Rat(1, 2)>>, <<Rat(5, 2)>>, <<Rat(201, 2)>>, <<Rat(2047, 2)>>}

\* coeff = int(coeff) unless None; build the AIT message; write it.
\* ret.value keeps the argument n of the call.
_setup_integration_time(op, adc_type, mode) ==
    /\ pc = "idle"
    /\ Begin
    /\ \E n \in CoeffInputs, o \in WriteOutcomes :
         LET coeff == IF n # <<>> THEN <<PyIntOfNumber(n[1])>> ELSE <<>>
             msg   == ait(adc_type, mode, coeff)
             exc   == IF msg.exc # NoExc THEN msg.exc ELSE write(o)
         IN  /\ log' = IF msg.exc # NoExc THEN <<>>
                       ELSE WriteSent(msg.cmd[1], o)
             /\ Finish(Ret(op, IF exc # NoExc THEN "raised" ELSE "returned",
                           exc, NoExc, <<n>>))
    /\ UNCHANGED <<registry, discovery, smu, instrument, timeout, stored>>

use_nplc_for_high_speed_adc ==
    _setup_integration_time("use_nplc_for_high_speed_adc",
                            AIT_HIGH_SPEED, AIT_NPLC)

use_nplc_for_high_resolution_adc ==
    _setup_integration_time("use_nplc_for_high_resolution_adc",
                            AIT_HIGH_RESOLUTION, AIT_NPLC)

use_manual_mode_for_high_speed_adc ==
    _setup_integration_time("use_manual_mode_for_high_speed_adc",
                            AIT_HIGH_SPEED, AIT_MANUAL)

(***************************************************************************)
(* KeysightB1500.__init__: _find_modules, then the parameters and          *)
(* connect_message; an exception leaves the caller without an instrument   *)
(***************************************************************************)
NoInstrument(exc) ==
    /\ pc' = "no_instrument"
    /\ ret' = Raised("__init__", exc, NoExc)
    /\ slot_population' = <<>>
    /\ instance' = "none"

\* ask for the population of the slots and parse the reply
find_modules_ask ==
    /\ pc = "find_modules"
    /\ \E a \in AskOutcomes :
         /\ log' = <<Sent("query", unt_query, IF a = "ok" THEN installed ELSE <<>>)>>
         /\ IF a # "ok"
            THEN NoInstrument(VisaIOError(a, "_find_modules.ask"))
            ELSE /\ pc' = "add_modules"
                 /\ slot_population' = parse_module_query_response(installed)
                 /\ UNCHANGED <<ret, instance>>
    /\ UNCHANGED <<registry, installed, smu, instrument, timeout, locals,
                   stored, pre>>

\* one turn of the loop: from_model_name, then add_module (the short names
\* of modules in different slots differ, so add_submodule accepts them)
find_modules_step ==
    /\ pc = "add_modules"
    /\ slot_population # <<>>
    /\ LET item == Head(slot_population)
           made == from_model_name(item.model, item.slot_nr)
           reg  == [by_slot |-> by_slot, by_channel |-> by_channel,
                    by_kind |-> by_kind]
       IN  IF made.exc # NoExc
           THEN /\ NoInstrument(made.exc)
                /\ UNCHANGED registry
           ELSE LET new == Registered(reg, made.module[1])
                IN  /\ by_slot' = new.by_slot
                    /\ by_channel' = new.by_channel
                    /\ by_kind' = new.by_kind
                    /\ nadd' = nadd + 1
                    /\ slot_population' = Tail(slot_population)
                    /\ UNCHANGED <<pc, ret, instance>>
    /\ UNCHANGED <<installed, smu, instrument, timeout, log, locals, stored, pre>>

\* the loop has ended: the parameters are added, connect_message asks for
\* the identification, and the caller gets the instrument
init_return ==
    /\ pc = "add_modules"
    /\ slot_population = <<>>
    /\ pc' = "idle"
    /\ log' = Append(log, Sent("query", idn_query, <<>>))
    /\ ret' = Returned("__init__", <<>>)
    /\ instance' = "instrument"
    /\ UNCHANGED <<registry, installed, slot_population, smu, instrument,
                   timeout, locals, stored, pre>>

(***************************************************************************)
(* Specifications                                                          *)
(***************************************************************************)
\* the driver in use after construction
Next ==
    \/ get_raw_validate
    \/ get_raw_read_format
    \/ get_raw_force
    \/ get_raw_execute
    \/ get_raw_restore
    \/ set_measurement_mode
    \/ self_calibration
    \/ self_calibration_return

Spec == Init /\ [][Next]_vars

\* the registry from the moment __init__ has created the empty indices
InitRegistry ==
    /\ pc = "idle"
    /\ by_slot = EmptyRegistry.by_slot
    /\ by_channel = EmptyRegistry.by_channel
    /\ by_kind = EmptyRegistry.by_kind
    /\ nadd = 0
    /\ installed = [i \in 1..MaxSlots |-> "0"]
    /\ slot_population = <<>>
    /\ instance = "instrument"
    /\ smu = <<>>
    /\ instFmt = <<1, 1>>
    /\ instMM = [mode |-> 16, channels |-> <<>>]
    /\ timeout = DefaultTimeout
    /\ log = <<>>
    /\ InitLocals
    /\ InitStored
    /\ ret = Ret("none", "none", NoExc, NoExc, <<>>)
    /\ pre = [timeout |-> DefaultTimeout, instFmt |-> instFmt]

NextRegistry == add_module

SpecRegistry == InitRegistry /\ [][NextRegistry]_vars

\* the two settings queries, for the measurement modes and the reply
\* layouts an instrument may present
RECURSIVE ChannelListsOf(_)
\* the ordered lists of exactly n channel numbers
ChannelListsOf(n) ==
    IF n = 0 THEN {<<>>}
    ELSE {Append(cs, c) : cs \in ChannelListsOf(n - 1), c \in {3, 5, 10}}

ParseModes ==
    {[mode |-> m, channels |-> cs] :
        m \in {1, 2, 16}, cs \in UNION {ChannelListsOf(n) : n \in 0..MaxChannels}}

InitParse ==
    /\ pc = "idle"
    /\ by_slot = DiscoveredRegistry.by_slot
    /\ by_channel = DiscoveredRegistry.by_channel
    /\ by_kind = DiscoveredRegistry.by_kind
    /\ nadd = 0
    /\ installed = [i \in 1..MaxSlots |-> IF i <= 2 THEN "B1517A" ELSE "0"]
    /\ slot_population = <<>>
    /\ instance = "instrument"
    /\ \E a \in SmuAttributes2 : smu = [i \in {1, 2} |-> a]
    /\ instFmt \in InstFormats
    /\ instMM \in ParseModes
    /\ timeout = DefaultTimeout
    /\ log = <<>>
    /\ InitLocals
    /\ InitStored
    /\ ret = Ret("none", "none", NoExc, NoExc, <<>>)
    /\ pre = [timeout |-> DefaultTimeout, instFmt |-> instFmt]

NextParse ==
    \/ query_measurement_mode
    \/ query_response_format_and_mode

SpecParse == InitParse /\ [][NextParse]_vars

\* the integration-time setters of a constructed instrument
NextIntegration ==
    \/ use_nplc_for_high_speed_adc
    \/ use_nplc_for_high_resolution_adc
    \/ use_manual_mode_for_high_speed_adc

SpecIntegration == Init /\ [][NextIntegration]_vars

\* construction, from the moment __init__ has created the empty indices
InitConstruction ==
    /\ pc = "find_modules"
    /\ by_slot = EmptyRegistry.by_slot
    /\ by_channel = EmptyRegistry.by_channel
    /\ by_kind = EmptyRegistry.by_kind
    /\ nadd = 0
    /\ installed \in [1..MaxSlots -> ModelCodes]
    /\ slot_population = <<>>
    /\ instance = "none"
    /\ smu = <<>>
    /\ instFmt = <<1, 1>>
    /\ instMM = [mode |-> 16, channels |-> <<>>]
    /\ timeout = DefaultTimeout
    /\ log = <<>>
    /\ InitLocals
    /\ InitStored
    /\ ret = Ret("__init__", "none", NoExc, NoExc, <<>>)
    /\ pre = [timeout |-> DefaultTimeout, instFmt |-> instFmt]

NextConstruction ==
    \/ find_modules_ask
    \/ find_modules_step
    \/ init_return

SpecConstruction == InitConstruction /\ [][NextConstruction]_vars

(***************************************************************************)
(* Vocabulary of the properties                                            *)
(***************************************************************************)
\* the last operation was a sweep get and control is back with the caller
SweepDone == pc = "idle" /\ ret.op = "get_raw"

\* the FMT commands handed to the transport, in order
FmtWrites(q) == SelectSeq(q, LAMBDA e : e.io = "write" /\ e.cmd.mn = "FMT")

\* the writes and the queries handed to the transport
Writes(q) == SelectSeq(q, LAMBDA e : e.io = "write")

XeQueries(q) == SelectSeq(q, LAMBDA e : e.cmd.mn = "XE")

\* raise sites of the steps that precede the forcing write
ModeSites == {"get_measurement_mode.ask", "get_measurement_mode.match",
              "get_measurement_mode.int", "get_measurement_mode.enum"}

CheckSites == {"get_raw.channels", "get_raw.by_channel", "get_raw.setup"}

FormatSites == {"get_response_format_and_mode.ask",
                "get_response_format_and_mode.match",
                "get_response_format_and_mode.int",
                "get_response_format_and_mode.enum"}

\* raise sites of the execute phase and of write
ExecuteSites == {"get_raw.xe", "fmt_response_base_parser"}

WriteSites == {"write.super", "write.error_message", "write.check"}

\* the sweep get read the format/mode pair
PairRead == ret.exc.site \notin (ModeSites \cup CheckSites \cup FormatSites)

\* the settings reply that states both fields as they are
FullReply(f, m) == FmtField(f) \o <<";">> \o MMField(m)

(***************************************************************************)
(* C1: in every sweep get that read the format/mode pair, the FMT commands *)
(* handed to the transport are exactly two: the forcing FMT 1,1 and, after *)
(* it, one FMT with the pair that was read, whatever became of the execute *)
(* query; a sweep get that fails before the pair is read issues no FMT     *)
(* command.                                                                *)
(***************************************************************************)
C1_RestoreIssuedOnce ==
    /\ pc \in {"force", "executing", "restore"} => fmt_saved = pre.instFmt
    /\ pc = "force" => FmtWrites(log) = <<>>
    /\ SweepDone =>
         FmtWrites(log) =
            IF PairRead
            THEN <<Sent("write", fmt(1, 1), <<>>),
                   Sent("write", fmt(pre.instFmt[1], pre.instFmt[2]), <<>>)>>
            ELSE <<>>

\* a sweep whose execute query timed out and that then issued the restore
C1_Witness ==
    /\ SweepDone
    /\ ret.exc.site = "get_raw.xe"
    /\ ret.exc.kind = "Timeout"
    /\ pre.instFmt = <<5, 0>>
    /\ Len(FmtWrites(log)) = 2

(***************************************************************************)
(* C2: when a sweep get that reached the forcing step hands control back   *)
(* with a result, or with the error of a timeout or transport failure of   *)
(* the execute query, the instrument's format/mode pair is the one it had  *)
(* before the sweep.                                                       *)
(***************************************************************************)
C2_FormatRestored ==
    (/\ SweepDone
     /\ FmtWrites(log) # <<>>
     /\ \/ ret.status = "returned"
        \/ ret.status = "raised" /\ ret.exc.site = "get_raw.xe")
    => instFmt = pre.instFmt

\* the execute query failed in transport, the instrument had been forced to
\* (1,1) and is back at its own pair
C2_Witness ==
    /\ SweepDone
    /\ ret.exc.site = "get_raw.xe"
    /\ ret.exc.kind = "TransportError"
    /\ pre.instFmt = <<5, 0>>
    /\ instFmt = <<5, 0>>

(***************************************************************************)
(* C3: when the execute phase failed (timeout, transport failure, reply    *)
(* that does not decode) and the restoring write completes without error,  *)
(* the exception handed to the caller is that of the execute phase.        *)
(***************************************************************************)
C3_OriginalErrorSurfaces ==
    [][(/\ pc = "restore"
        /\ pending.site \in ExecuteSites
        /\ pc' = "idle"
        /\ ret'.exc.site \notin WriteSites)
       => (ret'.status = "raised" /\ ret'.exc = pending)]_vars

\* the execute query timed out, the restore write and its poll went through,
\* and the timeout is what the caller sees
C3_Witness ==
    /\ SweepDone
    /\ ret.status = "raised"
    /\ ret.exc = VisaIOError("timeout", "get_raw.xe")
    /\ Len(log) >= 2
    /\ log[Len(log)].cmd = errx_query
    /\ log[Len(log)].reply = NoErrorCode

(***************************************************************************)
(* C4: when the execute phase failed and the restoring write fails too,    *)
(* the caller gets the failure of the restoring write, and the execute     *)
(* phase's exception stays attached to it (as its __context__).            *)
(***************************************************************************)
C4_BothErrorsReported ==
    [][(/\ pc = "restore"
        /\ pending.site \in ExecuteSites
        /\ pc' = "idle"
        /\ ret'.exc.site \in WriteSites)
       => (/\ ret'.status = "raised"
           /\ ret'.exc.kind \in {"TransportError", "Timeout", "InstrumentError"}
           /\ ret'.context = pending)]_vars

\* execute timed out, then the poll after the restoring write reported an
\* instrument error
C4_Witness ==
    /\ SweepDone
    /\ ret.exc.kind = "InstrumentError"
    /\ ret.context = VisaIOError("timeout", "get_raw.xe")

(***************************************************************************)
(* C5: a write completes without error exactly when the poll that follows  *)
(* it returns 0,"No Error."; any other poll result is escalated as an      *)
(* InstrumentError carrying the text of the poll.                          *)
(***************************************************************************)
C5_SentinelAsDocumented ==
    (/\ pc = "idle"
     /\ ret.op = "set_measurement_mode"
     /\ Len(log) = 2
     /\ log[2].reply # <<>>)
    => /\ ret.status = "returned" <=> log[2].reply = NoErrorDoc
       /\ ret.status = "raised" =>
            /\ ret.exc.kind = "InstrumentError"
            /\ ret.exc.msg[2] = log[2].reply[1]

(***************************************************************************)
(* C8: the execute query is issued under a timeout of                      *)
(* max(step_delay, effective_time) * step_count * 1.5, effective_time      *)
(* being 2 * (128 * |coefficient|) / line_frequency for a negative         *)
(* coefficient and coefficient * step_delay otherwise; coefficient -2 at   *)
(* 50 Hz, delay 0.01, 100 steps gives 1536, coefficient 4, delay 0.02, 50  *)
(* steps gives 6.                                                          *)
(***************************************************************************)
C8_Formula(a) ==
    LET c == a.average_coefficient
        d == a.step_delay
        eff == IF c < 0 THEN Rat(2 * 128 * (0 - c), a.power_line_frequency)
               ELSE Rat(c * d[1], d[2])
        m == IF eff[1] * d[2] > d[1] * eff[2] THEN eff ELSE d
    IN  Rat(m[1] * a.sweep_steps * 3, m[2] * 2)

C8_TimeoutFormula ==
    pc = "executing" =>
        LET a == smu[by_channel[instMM.channels[1]].id]
        IN  /\ timeout = C8_Formula(a)
            /\ (/\ a.average_coefficient = -2
                /\ a.power_line_frequency = 50
                /\ a.step_delay = <<1, 100>>
                /\ a.sweep_steps = 100) => timeout = <<1536, 1>>
            /\ (/\ a.average_coefficient = 4
                /\ a.step_delay = <<1, 50>>
                /\ a.sweep_steps = 50) => timeout = <<6, 1>>

\* the execute query of the first example is in flight
C8_Witness ==
    /\ pc = "executing"
    /\ smu[1].average_coefficient = -2
    /\ smu[1].power_line_frequency = 50
    /\ instMM.channels = <<1, 2>>
    /\ timeout = <<1536, 1>>

(***************************************************************************)
(* C9: the timeout override is scoped: outside the execute query of a      *)
(* sweep get and the query of self_calibration the channel's timeout is    *)
(* the one it had when the operation began, however the query ended.       *)
(***************************************************************************)
C9_TimeoutScoped ==
    /\ pc \notin {"executing", "calibrating"} => timeout = pre.timeout
    /\ pc = "executing" => timeout = new_timeout
    /\ pc = "calibrating" => timeout = <<calibration_time_out, 1>>

\* a sweep get whose execute query timed out, back at the default timeout
C9_Witness ==
    /\ SweepDone
    /\ ret.exc = VisaIOError("timeout", "get_raw.xe")
    /\ timeout = DefaultTimeout

(***************************************************************************)
(* C10: a sweep get whose measurement mode lists 0, 1 or 3 or more         *)
(* channels fails with InvalidSweepConfiguration, before any write, FMT    *)
(* command or execute query and without changing the timeout.              *)
(***************************************************************************)
C10_NotTwoChannels ==
    (/\ SweepDone
     /\ Len(instMM.channels) # 2
     /\ log[1].reply = FullReply(pre.instFmt, instMM))
    => /\ ret.status = "raised"
       /\ ret.exc.kind = "InvalidSweepConfiguration"
       /\ Writes(log) = <<>>
       /\ XeQueries(log) = <<>>
       /\ timeout = pre.timeout

\* the part of C10 the code meets: a mode read with 1 or 3 channels
C10_OneOrThreeChannels ==
    (/\ SweepDone
     /\ Len(instMM.channels) \in {1, 3}
     /\ log[1].reply = FullReply(pre.instFmt, instMM))
    => /\ ret.status = "raised"
       /\ ret.exc.kind = "InvalidSweepConfiguration"
       /\ Writes(log) = <<>>
       /\ XeQueries(log) = <<>>
       /\ timeout = pre.timeout

(***************************************************************************)
(* C6: add_module of a module whose slot number is already in by_slot, or  *)
(* one of whose channels is already in by_channel, fails with              *)
(* DuplicateRegistration and leaves by_slot, by_channel and by_kind as     *)
(* they were.                                                              *)
(***************************************************************************)
Clashes(module) ==
    \/ module.slot_nr \in DOMAIN by_slot
    \/ \E c \in SeqRange(module.channels) : c \in DOMAIN by_channel

C6_DuplicateRejected ==
    [][(nadd' = nadd + 1 /\ Clashes(ret'.value[1]))
       => (/\ ret'.status = "raised"
           /\ ret'.exc.kind \in {"DuplicateRegistration", "DuplicateSubmodule"}
           /\ UNCHANGED <<by_slot, by_channel, by_kind>>)]_vars

(***************************************************************************)
(* C7: after any sequence of add_module calls no two distinct modules held *)
(* in the registry own the same channel number, and by_channel maps each   *)
(* channel of a held module to that module.                                *)
(***************************************************************************)
HeldModules ==
    {by_slot[s] : s \in DOMAIN by_slot}
    \cup {by_channel[c] : c \in DOMAIN by_channel}
    \cup UNION {SeqRange(by_kind[k]) : k \in ModuleKinds}

C7_ChannelOwnedOnce ==
    /\ \A m1, m2 \in HeldModules :
         m1 # m2 => SeqRange(m1.channels) \cap SeqRange(m2.channels) = {}
    /\ \A m \in HeldModules : \A c \in SeqRange(m.channels) :
         c \in DOMAIN by_channel /\ by_channel[c] = m

(***************************************************************************)
(* Vocabulary of the sweep get's first step                                *)
(***************************************************************************)
\* the measurement mode the sweep get read: its first query was answered
\* and the answer parsed
ModeRead ==
    /\ SweepDone
    /\ log[1].reply # <<>>
    /\ get_measurement_mode(log[1].reply).exc = NoExc

ModeChannels == get_measurement_mode(log[1].reply).channels

\* the only message of the operation is the query of the measurement mode
OnlyModeQueried == log = <<Sent("query", lrn_query, log[1].reply)>>

(***************************************************************************)
(* C11: a sweep get whose sweep-source module (the owner of the first of   *)
(* the two channels of the measurement mode) has not run its sweep setup   *)
(* fails with SweepNotConfigured; nothing but the measurement-mode query   *)
(* was sent (no format read, no FMT command, no execute query) and the     *)
(* timeout is the one the operation began with.                            *)
(***************************************************************************)
C11_SetupRequired ==
    (/\ ModeRead
     /\ Len(ModeChannels) = 2
     /\ ModeChannels[1] \in DOMAIN by_channel
     /\ ~smu[by_channel[ModeChannels[1]].id].setup_fnc_already_run)
    => /\ ret.status = "raised"
       /\ ret.exc.kind = "SweepNotConfigured"
       /\ OnlyModeQueried
       /\ timeout = pre.timeout
       /\ instFmt = pre.instFmt

\* channels (1,2) read, module 1 not set up, the sweep get refused
C11_Witness ==
    /\ ModeRead
    /\ ModeChannels = <<1, 2>>
    /\ ~smu[1].setup_fnc_already_run
    /\ ret.status = "raised"
    /\ ret.exc.site = "get_raw.setup"

(***************************************************************************)
(* C15: a sweep get whose measurement mode has two channels the first of   *)
(* which is not in by_channel fails with UnknownChannel, and nothing but   *)
(* the measurement-mode query was sent: no write, no FMT command, no       *)
(* execute query.                                                          *)
(***************************************************************************)
C15_UnknownChannel ==
    (/\ ModeRead
     /\ Len(ModeChannels) = 2
     /\ ModeChannels[1] \notin DOMAIN by_channel)
    => /\ ret.status = "raised"
       /\ ret.exc.kind = "UnknownChannel"
       /\ OnlyModeQueried
       /\ Writes(log) = <<>>
       /\ XeQueries(log) = <<>>

\* channels (3,1) read, no module owns channel 3, the sweep get refused
C15_Witness ==
    /\ ModeRead
    /\ ModeChannels = <<3, 1>>
    /\ 3 \notin DOMAIN by_channel
    /\ ret.status = "raised"
    /\ ret.exc.site = "get_raw.by_channel"

(***************************************************************************)
(* C12: a sweep get whose decoded execute response has a number of         *)
(* readings that is not a multiple of 3 fails with MalformedResponse       *)
(* instead of returning series.                                            *)
(***************************************************************************)
C12_StrideChecked ==
    [][(/\ pc = "restore"
        /\ pending = NoExc
        /\ Len(parsed_data[1].value) % 3 # 0
        /\ pc' = "idle")
       => (/\ ret'.status = "raised"
           /\ ret'.exc.site \notin WriteSites
                => ret'.exc.kind = "MalformedResponse")]_vars

\* the part of C12 the code meets: the three stored series are the readings
\* at offsets 0, 1 and 2 with stride 3 (reading i carries the value 100 + i)
C12_SplitAtOffsets ==
    (SweepDone /\ ret.status = "returned") =>
        /\ \A k \in 1..Len(param1.value[1]) :
              param1.value[1][k] = Reading(3 * (k - 1) + 1).value
        /\ \A k \in 1..Len(param2.value[1]) :
              param2.value[1][k] = Reading(3 * (k - 1) + 2).value
        /\ \A k \in 1..Len(source_voltage.value[1]) :
              source_voltage.value[1][k] = Reading(3 * (k - 1) + 3).value
        /\ ret.value = <<param1.value[1], param2.value[1]>>

(***************************************************************************)
(* C13: a sweep get that returns hands back two sequences of equal length, *)
(* that length being the length of the new setpoints (the source-voltage   *)
(* trace) and the declared shape of both outputs; and in each stored       *)
(* series value, status, channel and type have the same length.            *)
(***************************************************************************)
ParallelLengths(series) ==
    /\ Len(series.status[1]) = Len(series.value[1])
    /\ Len(series.channel[1]) = Len(series.value[1])
    /\ Len(series.type[1]) = Len(series.value[1])

C13_EqualLengths ==
    (SweepDone /\ ret.status = "returned") =>
        /\ Len(ret.value[1]) = Len(ret.value[2])
        /\ Len(ret.value[1]) = Len(setpoints[1][1])
        /\ shapes = <<<<Len(ret.value[1])>>, <<Len(ret.value[1])>>>>
        /\ ParallelLengths(param1)
        /\ ParallelLengths(param2)
        /\ ParallelLengths(source_voltage)

\* the part of C13 the code meets: the four sequences of each stored series
\* have one length, and the declared shape is the length of the setpoints,
\* which are the source-voltage trace
C13_SeriesParallel ==
    (SweepDone /\ ret.status = "returned") =>
        /\ ParallelLengths(param1)
        /\ ParallelLengths(param2)
        /\ ParallelLengths(source_voltage)
        /\ setpoints = <<<<source_voltage.value[1]>>, <<source_voltage.value[1]>>>>
        /\ shapes = <<<<Len(setpoints[1][1])>>, <<Len(setpoints[1][1])>>>>

(***************************************************************************)
(* C14: when the population reply names a model code the driver does not   *)
(* recognize, discovery fails with UnsupportedModule at that slot (it is   *)
(* not skipped), the constructor fails, and the caller never holds an      *)
(* instrument whose registry has only the modules found before that slot.  *)
(***************************************************************************)
Unrecognized ==
    {i \in 1..MaxSlots : installed[i] \notin RecognizedModels \cup {"0"}}

ConstructionEnded == pc \in {"idle", "no_instrument"}

C14_UnsupportedModuleFatal ==
    /\ (Unrecognized # {} /\ ConstructionEnded) =>
          /\ ret.status = "raised"
          /\ instance = "none"
          /\ log[1].reply # <<>> =>
                /\ ret.exc.kind = "UnsupportedModule"
                /\ DOMAIN by_slot =
                     {i \in 1..MaxSlots : /\ installed[i] # "0"
                                          /\ \A j \in Unrecognized : i < j}
    /\ Unrecognized # {} => instance = "none"
    /\ instance = "instrument" =>
          DOMAIN by_slot = {i \in 1..MaxSlots : installed[i] # "0"}

\* slot 1 holds a B1517A and was registered, slot 2 holds an unknown model:
\* the constructor raised and the caller holds nothing
C14_Witness ==
    /\ pc = "no_instrument"
    /\ installed[1] = "B1517A"
    /\ installed[2] = "B1525A"
    /\ DOMAIN by_slot = {1}
    /\ ret.exc.site = "from_model_name"
    /\ instance = "none"

(***************************************************************************)
(* Vocabulary of the integration-time setters                              *)
(***************************************************************************)
IntegrationSetters ==
    {"use_nplc_for_high_speed_adc", "use_nplc_for_high_resolution_adc",
     "use_manual_mode_for_high_speed_adc"}

\* the last operation was an integration-time setter called with a number
SetterCalled ==
    /\ pc = "idle"
    /\ ret.op \in IntegrationSetters
    /\ ret.value[1] # <<>>

\* the largest coefficient the setter's mode allows
CoeffMax ==
    IF ret.op = "use_manual_mode_for_high_speed_adc" THEN 1023 ELSE 100

\* the number passed is below 1 or above the largest coefficient
CoeffOutOfRange ==
    LET n == ret.value[1][1]
    IN  RatLess(n, <<1, 1>>) \/ RatLess(<<CoeffMax, 1>>, n)

CoeffIntegral == ret.value[1][1][2] = 1

(***************************************************************************)
(* C16: an integration-time setter called with a coefficient outside its   *)
(* range (1..1023 for use_manual_mode_for_high_speed_adc, 1..100 for the  *)
(* two NPLC setters) fails with InvalidParameter and the transport has     *)
(* seen no write and no query.                                             *)
(***************************************************************************)
C16_OutOfRangeRejected ==
    (SetterCalled /\ CoeffOutOfRange)
    => /\ ret.status = "raised"
       /\ ret.exc.kind = "InvalidParameter"
       /\ log = <<>>

\* the part of C16 that holds: whole numbers outside the range
C16_IntegralOutOfRange ==
    (SetterCalled /\ CoeffOutOfRange /\ CoeffIntegral)
    => /\ ret.status = "raised"
       /\ ret.exc.kind = "InvalidParameter"
       /\ log = <<>>

(***************************************************************************)
(* C17: an integration-time setter called with a coefficient that is not a *)
(* whole number (2.5) does not transmit it truncated to a whole number:    *)
(* no AIT command is written.                                              *)
(***************************************************************************)
C17_NonIntegralNotTransmitted ==
    (SetterCalled /\ ~CoeffIntegral) => Writes(log) = <<>>

(***************************************************************************)
(* Vocabulary of the settings queries                                      *)
(***************************************************************************)
\* a settings query has ended and its reply had arrived
ModeQueryAnswered ==
    /\ pc = "idle"
    /\ ret.op = "get_measurement_mode"
    /\ log[1].reply # <<>>

FormatQueryAnswered ==
    /\ pc = "idle"
    /\ ret.op = "get_response_format_and_mode"
    /\ log[1].reply # <<>>

\* field stands in text as a field of its own: it begins the text or follows
\* a ';', and it is closed by a ';' or by the end of the text
ContainsField(text, field) ==
    \E i \in 1..Len(text) :
        /\ i + Len(field) - 1 <= Len(text)
        /\ SubSeq(text, i, i + Len(field) - 1) = field
        /\ i = 1 \/ text[i - 1] = ";"
        /\ i + Len(field) > Len(text) \/ text[i + Len(field)] = ";"

\* the fields of text: the pieces between its ';'
FieldStarts(text) ==
    {i \in 1..Len(text) : i = 1 \/ text[i - 1] = ";"}

FieldAt(text, i) ==
    LET stops == {j \in i..Len(text) : text[j] = ";"}
        e == IF stops = {} THEN Len(text) + 1
             ELSE CHOOSE j \in stops : \A k \in stops : j <= k
    IN  SubSeq(text, i, e - 1)

\* a field is a tagged pair when it is the tag, a first value, a comma and
\* a second value that is not empty
IsTaggedPair(field, tag) ==
    /\ Len(field) > Len(tag)
    /\ SubSeq(field, 1, Len(tag)) = tag
    /\ \E c \in (Len(tag) + 1)..(Len(field) - 1) : field[c] = ","

\* no field of text is a tagged pair for tag
LacksField(text, tag) ==
    \A i \in FieldStarts(text) : ~IsTaggedPair(FieldAt(text, i), tag)

(***************************************************************************)
(* C18: for a mode m and a non-empty ordered list cs of channel numbers, a *)
(* settings reply that contains the field MM<m>,<cs joined by commas>,     *)
(* closed by ';' or by the end of the reply, is parsed by                  *)
(* get_measurement_mode to {mode: m, channels: cs}, the channels in the    *)
(* order of the reply; "MM1,3,5;" gives mode 1, channels [3,5].            *)
(***************************************************************************)
C18_ModeRoundTrip ==
    /\ (/\ ModeQueryAnswered
        /\ instMM.channels # <<>>
        /\ ContainsField(log[1].reply, MMField(instMM)))
       => /\ ret.status = "returned"
          /\ ret.value = <<[mode |-> instMM.mode, channels |-> instMM.channels]>>
    /\ (ModeQueryAnswered
        /\ log[1].reply = <<"M", "M", "1", ",", "3", ",", "5", ";">>)
       => ret.value = <<[mode |-> 1, channels |-> <<3, 5>>]>>

\* the reply MM1,3,5; was parsed to mode 1, channels [3,5]
C18_Witness ==
    /\ ModeQueryAnswered
    /\ log[1].reply = <<"M", "M", "1", ",", "3", ",", "5", ";">>
    /\ ret.status = "returned"
    /\ ret.value[1].channels = <<3, 5>>

(***************************************************************************)
(* C19: when the settings reply has no MM field with a second value (for   *)
(* get_measurement_mode) or no FMT field with a second value (for          *)
(* get_response_format_and_mode), the query fails with ProtocolMismatch    *)
(* and returns no dictionary, neither a default nor a partly filled one.   *)
(***************************************************************************)
C19_MissingFieldFails ==
    /\ (ModeQueryAnswered /\ LacksField(log[1].reply, <<"M", "M">>))
       => /\ ret.status = "raised"
          /\ ret.exc.kind = "ProtocolMismatch"
          /\ ret.value = <<>>
    /\ (FormatQueryAnswered /\ LacksField(log[1].reply, <<"F", "M", "T">>))
       => /\ ret.status = "raised"
          /\ ret.exc.kind = "ProtocolMismatch"
          /\ ret.value = <<>>

\* a reply with the measurement mode only, asked for its format: refused
C19_Witness ==
    /\ FormatQueryAnswered
    /\ log[1].reply = MMField(instMM)
    /\ instMM.channels # <<>>
    /\ ret.status = "raised"
    /\ ret.exc.site = "get_response_format_and_mode.match"

(***************************************************************************)
(* C20: in a sweep get the execute query is sent only directly after the   *)
(* write of FMT 1,1 and an error poll that answered "no error"; when the   *)
(* forcing write fails (in the transport, or by an error the poll          *)
(* reports), no execute query is sent and the timeout is not overridden,   *)
(* and the restoring FMT command is issued all the same.                   *)
(***************************************************************************)
\* the forcing write of the sweep get in progress or just ended has failed:
\* FMT 1,1 was handed to the transport and was not followed by a poll that
\* answered "no error"
ForcingFailed ==
    \E i \in 1..Len(log) :
        /\ log[i] = Sent("write", fmt(1, 1), <<>>)
        /\ \A j \in 1..(i - 1) : log[j].io # "write"
        /\ \/ i = Len(log)
           \/ log[i + 1].cmd # errx_query
           \/ log[i + 1].reply # WriteSentinel

C20_ExecuteAfterForcing ==
    /\ \A i \in 1..Len(log) :
          log[i].cmd = xe =>
             /\ i >= 3
             /\ log[i - 2] = Sent("write", fmt(1, 1), <<>>)
             /\ log[i - 1] = Sent("query", errx_query, WriteSentinel)
    /\ (pc = "restore" /\ pending.site \in WriteSites) =>
          /\ ForcingFailed
          /\ XeQueries(log) = <<>>
          /\ timeout = pre.timeout
          /\ original_value = NoTimeout
    /\ (SweepDone /\ ForcingFailed) =>
          /\ XeQueries(log) = <<>>
          /\ timeout = pre.timeout
          /\ FmtWrites(log) =
                <<Sent("write", fmt(1, 1), <<>>),
                  Sent("write", fmt(pre.instFmt[1], pre.instFmt[2]), <<>>)>>

\* the poll after FMT 1,1 reported an error: no XE went out, and the FMT
\* command with the saved pair did
C20_Witness ==
    /\ SweepDone
    /\ pre.instFmt = <<5, 0>>
    /\ Len(log) >= 5
    /\ log[3] = Sent("write", fmt(1, 1), <<>>)
    /\ log[4].cmd = errx_query
    /\ log[4].reply \in ErrorTexts
    /\ log[5] = Sent("write", fmt(5, 0), <<>>)
    /\ XeQueries(log) = <<>>

(***************************************************************************)
(* C21: every command that write hands over to the channel is followed by  *)
(* exactly one error-queue query, and that query is the next message on    *)
(* the channel; this holds for the forcing and the restoring write of a    *)
(* sweep get as for any other write.  (A command whose hand-over failed in *)
(* the transport was not sent: write raises and asks for nothing.)         *)
(***************************************************************************)
\* the messages the step at hand adds to the channel
NewMessages ==
    IF pc = "idle" THEN log' ELSE SubSeq(log', Len(log) + 1, Len(log'))

\* the step ends a write whose hand-over the transport refused
HandOverFailed ==
    pending'.site = "write.super" \/ ret'.exc.site = "write.super"

C21_PollFollowsWrite ==
    [][\A i \in 1..Len(NewMessages) :
          NewMessages[i].io = "write" =>
             \/ /\ i < Len(NewMessages)
                /\ NewMessages[i + 1].io = "query"
                /\ NewMessages[i + 1].cmd = errx_query
                /\ i + 2 <= Len(NewMessages)
                      => NewMessages[i + 2].cmd # errx_query
             \/ /\ i = Len(NewMessages)
                /\ HandOverFailed]_vars

\* a sweep get that returned: FMT 1,1, its poll, XE, the restoring FMT, its
\* poll
C21_Witness ==
    /\ SweepDone
    /\ ret.status = "returned"
    /\ pre.instFmt = <<5, 0>>
    /\ Len(log) = 7
    /\ log[3] = Sent("write", fmt(1, 1), <<>>)
    /\ log[4] = Sent("query", errx_query, NoErrorCode)
    /\ log[5].cmd = xe
    /\ log[6] = Sent("write", fmt(5, 0), <<>>)
    /\ log[7] = Sent("query", errx_query, NoErrorCode)

(***************************************************************************)
(* C22: a sweep get that fails, in whatever phase, leaves param1, param2,  *)
(* source_voltage, shapes and setpoints as the previous sweep left them;   *)
(* they change only in the step in which a sweep get returns, after the    *)
(* execute query, the decoding and the restoring write have succeeded.     *)
(***************************************************************************)
C22_StoredOnlyOnSuccess ==
    [][/\ (ret'.op = "get_raw" /\ ret'.status = "raised") => UNCHANGED stored
       /\ ~(UNCHANGED stored) =>
             /\ pc = "restore"
             /\ pending = NoExc
             /\ parsed_data # <<>>
             /\ ret' = Returned("get_raw", <<param1'.value[1], param2'.value[1]>>)
             /\ log'[Len(log')] = Sent("query", errx_query, WriteSentinel)]_vars

\* a sweep get failed in the execute query while the results of an earlier
\* sweep of three readings remain stored
C22_Witness ==
    /\ SweepDone
    /\ ret.status = "raised"
    /\ ret.exc.site = "get_raw.xe"
    /\ param1.value = <<<<Reading(1).value>>>>
    /\ setpoints = <<<<source_voltage.value[1]>>, <<source_voltage.value[1]>>>>

(***************************************************************************)
(* C23: once discovery has completed (one population query, one add_module *)
(* for each slot that holds a module) the three indices agree: by_slot     *)
(* maps each such slot to its module, by_channel maps each channel of that *)
(* module to the same module, the module is in by_kind once, under its own *)
(* kind, and by_kind holds as many modules as by_slot has entries.         *)
(***************************************************************************)
Discovered == pc = "idle" /\ ret.op = "__init__" /\ instance = "instrument"

Occurrences(q, x) == Cardinality({k \in 1..Len(q) : q[k] = x})

C23_IndicesAgree ==
    Discovered =>
        /\ Len(SelectSeq(log, LAMBDA e : e.cmd = unt_query)) = 1
        /\ DOMAIN by_slot = {i \in 1..MaxSlots : installed[i] # "0"}
        /\ nadd = Cardinality(DOMAIN by_slot)
        /\ \A s \in DOMAIN by_slot :
              LET module == by_slot[s]
              IN  /\ module.slot_nr = s
                  /\ module.kind = KindOfModel(installed[s])
                  /\ module.channels # <<>>
                  /\ \A c \in SeqRange(module.channels) :
                        c \in DOMAIN by_channel /\ by_channel[c] = module
                  /\ \A k \in ModuleKinds :
                        Occurrences(by_kind[k], module) =
                           IF k = module.kind THEN 1 ELSE 0
        /\ \A c \in DOMAIN by_channel :
              \E s \in DOMAIN by_slot : by_channel[c] = by_slot[s]
        /\ Len(by_kind["SMU"]) + Len(by_kind["CMU"]) + Len(by_kind["WGFMU"])
              = Cardinality(DOMAIN by_slot)

\* a B1517A in slot 1, an empty slot 2 and a B1520A in slot 3 were found
C23_Witness ==
    /\ Discovered
    /\ installed[1] = "B1517A"
    /\ installed[2] = "0"
    /\ installed[3] = "B1520A"
    /\ DOMAIN by_slot = {1, 3}
    /\ Len(by_kind["SMU"]) = 1
    /\ Len(by_kind["CMU"]) = 1

====
